---- MODULE Spec2Model ----
(***************************************************************************)
(* CI-workflow provisioning helpers of shubhranshu007/mcp-server.          *)
(*                                                                         *)
(*   src/main.py      inline-generation variant: POST /generate_ci reads   *)
(*                    the Dockerfile, detects a language from its FROM     *)
(*                    lines, generates a YAML body and commits it to       *)
(*                    .github/workflows/{language}-ci.yml                  *)
(*   src/app/main.py  template-copy variant: copy_workflow_from_reference  *)
(*                    detects a language from the Dockerfile text or the   *)
(*                    root listing, fetches {language}-ci.yml from a       *)
(*                    reference repository and creates                     *)
(*                    .github/workflows/ci.yml                             *)
(*                                                                         *)
(* Every remote call of the hosting API is one atomic step; invocations    *)
(* interleave between their remote calls.                                  *)
(*                                                                         *)
(* Text is modelled as a sequence of lines, a line as a sequence of        *)
(* whitespace-separated tokens (" " is a token of leading or trailing      *)
(* blank space).  Substring tests are tables over the token vocabulary.    *)
(***************************************************************************)
EXTENDS Integers, Sequences, FiniteSets, TLC

VARIABLES dockerfile, rootEntries, refFiles, files, commits,
          pc, language, ci_yaml, contents_sha, readAt, reference, calls, result

vars == <<dockerfile, rootEntries, refFiles, files, commits,
          pc, language, ci_yaml, contents_sha, readAt, reference, calls, result>>

(* ---------------------------- bounds ---------------------------------- *)

NumInvocations == 2

MaxLines == 2

MaxEntries == 2

Invocations == 1..NumInvocations

(* ------------------------- text vocabulary ---------------------------- *)

\* str.lower() on one token.
Lower(tok) ==
    CASE tok = "FROM" -> "from"
      [] tok = "RUN" -> "run"
      [] tok = "COPY" -> "copy"
      [] tok = "PYTHON:3" -> "python:3"
      [] OTHER -> tok

\* The keywords that occur in a token as substrings ("kw in tok", which is
\* case-sensitive: an upper-case token contains none of them).
KeywordsIn(tok) ==
    CASE tok = "python:3.9-slim" -> {"python"}
      [] tok = "python:3" -> {"python"}
      [] tok = "python-dev" -> {"python"}
      [] tok = "node:18-alpine" -> {"node"}
      [] tok = "node_modules" -> {"node"}
      [] tok = "openjdk:17" -> {"openjdk"}
      [] tok = "maven:3" -> {"maven"}
      [] tok = "gradle:8" -> {"gradle"}
      [] tok = "golang:1.21" -> {"golang", "go"}
      [] tok = "mongo" -> {"go"}
      [] tok = "ruby:3.2" -> {"ruby"}
      [] OTHER -> {}

\* str.startswith("from") on the first token of a line.
StartsWithFrom(line) == line # <<>> /\ line[1] = "from"

RECURSIVE LStrip(_)
LStrip(line) ==
    IF line # <<>> /\ Head(line) = " " THEN LStrip(Tail(line)) ELSE line

RECURSIVE RStrip(_)
RStrip(line) ==
    IF line # <<>> /\ line[Len(line)] = " "
    THEN RStrip(SubSeq(line, 1, Len(line) - 1)) ELSE line

\* str.strip()
Strip(line) == RStrip(LStrip(line))

\* str.lower() on a line.
LowerLine(line) == [i \in DOMAIN line |-> Lower(line[i])]

\* "kw in line"
LineContains(line, kw) == \E i \in DOMAIN line : kw \in KeywordsIn(line[i])

\* "kw in dockerfile.lower()"
TextContains(text, kw) ==
    \E n \in DOMAIN text : LineContains(LowerLine(text[n]), kw)

(* --------------------- src/main.py: detection ------------------------- *)

\* The chain of substring tests applied to one FROM line; "" when the line
\* matches no keyword and the scan goes on.
MatchFromLine(line) ==
    IF LineContains(line, "python") THEN "python"
    ELSE IF LineContains(line, "node") THEN "node"
    ELSE IF LineContains(line, "openjdk") \/ LineContains(line, "maven")
         THEN "java-maven"
    ELSE IF LineContains(line, "gradle") THEN "java-gradle"
    ELSE IF LineContains(line, "golang") THEN "go"
    ELSE IF LineContains(line, "ruby") THEN "ruby"
    ELSE ""

RECURSIVE detect_language(_)
detect_language(lines) ==
    IF lines = <<>> THEN "unknown"
    ELSE LET line == LowerLine(Strip(Head(lines)))
         IN  IF StartsWithFrom(line) /\ MatchFromLine(line) # ""
             THEN MatchFromLine(line)
             ELSE detect_language(Tail(lines))

\* get_dockerfile_content: the decoded text, or None on any exception.
get_dockerfile_content(df) ==
    IF df.status = "ok" THEN [none |-> FALSE, text |-> df.text]
    ELSE [none |-> TRUE, text |-> <<>>]

\* "not dockerfile": None and the empty string are both falsy.
Falsy(d) == d.none \/ d.text = <<>>

(* -------------------- src/main.py: generation ------------------------- *)

Body(name, steps) == [kind |-> "workflow", name |-> name, steps |-> steps]

generate_ci_yaml(lang) ==
    IF lang = "python" THEN
        Body("Python CI", <<"actions/checkout@v3", "actions/setup-python@v4",
                            "pip install -r requirements.txt", "pytest">>)
    ELSE IF lang = "node" THEN
        Body("Node.js CI", <<"actions/checkout@v3", "actions/setup-node@v4",
                             "npm install", "npm test">>)
    ELSE IF lang = "java-maven" THEN
        Body("Java Maven CI", <<"actions/checkout@v3", "actions/setup-java@v3",
                                "mvn -B package --file pom.xml">>)
    ELSE IF lang = "java-gradle" THEN
        Body("Java Gradle CI", <<"actions/checkout@v3", "actions/setup-java@v3",
                                 "./gradlew build">>)
    ELSE [kind |-> "comment", name |-> lang, steps |-> <<>>]

\* f".github/workflows/{language}-ci.yml"
WorkflowPath(lang) == <<".github/workflows/", lang, "-ci.yml">>

(* ------------------- src/app/main.py: detection ----------------------- *)

\* The suffixes, among those the fallback tests, that a root entry ends with.
SuffixesOf(name) ==
    CASE name = "app.py" -> {".py"}
      [] name = "package.json" -> {"package.json"}
      [] name = "pom.xml" -> {"pom.xml"}
      [] name = "Main.java" -> {".java"}
      [] name = "main.go" -> {".go"}
      [] OTHER -> {}

AnyEndsWith(entries, suffix) == \E f \in entries : suffix \in SuffixesOf(f)

\* Variant: pom.xml and *.java are tested before package.json.
FallbackFromFilesPomFirst(entries) ==
    IF AnyEndsWith(entries, ".py") THEN "python"
    ELSE IF AnyEndsWith(entries, "pom.xml") \/ AnyEndsWith(entries, ".java")
         THEN "java"
    ELSE IF AnyEndsWith(entries, "package.json") THEN "node"
    ELSE IF AnyEndsWith(entries, ".go") THEN "go"
    ELSE "default"

FallbackFromFiles(entries) ==
    IF AnyEndsWith(entries, ".py") THEN "python"
    ELSE IF AnyEndsWith(entries, "package.json") THEN "node"
    ELSE IF AnyEndsWith(entries, "pom.xml") \/ AnyEndsWith(entries, ".java")
         THEN "java"
    ELSE IF AnyEndsWith(entries, ".go") THEN "go"
    ELSE "default"

\* Variant: the Dockerfile fetch is outside the try block, so an unreadable
\* Dockerfile leaves the function by an exception and no tag is returned ("").
detect_language_from_repo_raising(df, entries) ==
    IF df.status # "ok" THEN ""
    ELSE IF TextContains(df.text, "python") THEN "python"
    ELSE IF TextContains(df.text, "node") THEN "node"
    ELSE IF TextContains(df.text, "java") \/ TextContains(df.text, "openjdk")
         THEN "java"
    ELSE IF TextContains(df.text, "go") THEN "go"
    ELSE FallbackFromFiles(entries)

detect_language_from_repo(df, entries) ==
    IF df.status = "ok" /\ TextContains(df.text, "python") THEN "python"
    ELSE IF df.status = "ok" /\ TextContains(df.text, "node") THEN "node"
    ELSE IF df.status = "ok"
            /\ (TextContains(df.text, "java") \/ TextContains(df.text, "openjdk"))
         THEN "java"
    ELSE IF df.status = "ok" /\ TextContains(df.text, "go") THEN "go"
    ELSE FallbackFromFiles(entries)

filename_map(lang) ==
    CASE lang = "python" -> "python-ci.yml"
      [] lang = "node" -> "node-ci.yml"
      [] lang = "java" -> "java-ci.yml"
      [] lang = "go" -> "go-ci.yml"
      [] OTHER -> "default-ci.yml"

CiPath == <<".github/workflows/ci.yml">>

(* -------------------------- repositories ------------------------------ *)

\* A file's content: a generated body, a copied template, or text that was
\* committed by someone else before ("foreign").  NoFile marks a path that
\* holds no file.
NoFile == [kind |-> "absent", name |-> "", steps |-> <<>>]

Foreign == [kind |-> "foreign", name |-> "hand-written", steps |-> <<>>]

\* The template stored as .github/workflows/{file} in reference repository ref.
Template(ref, file) == [kind |-> "template", name |-> file, steps |-> <<ref>>]

\* ContentFile.sha: the blob identity of a content; equal contents have equal
\* identities and different contents different ones.
Sha(content) == [blob |-> content]

InlineTags == {"python", "node", "java-maven", "java-gradle", "go", "ruby", "unknown"}

RepoTags == {"python", "node", "java", "go", "default"}

Paths == {CiPath} \cup {WorkflowPath(l) : l \in InlineTags}

WorkflowFiles == {filename_map(l) : l \in RepoTags}

RefRepos == {"acme/ci-templates", "acme/ci-partial"}

Lines ==
    { <<"FROM", "python:3.9-slim">>,
      <<"from", "node:18-alpine">>,
      <<" ", "FROM", "openjdk:17">>,
      <<"FROM", "gradle:8">>,
      <<"FROM", "golang:1.21">>,
      <<"FROM", "ruby:3.2">>,
      <<"FROM", "alpine">>,
      <<"FROM", "PYTHON:3">>,
      <<"RUN", "pip", "install", "python-dev">>,
      <<"RUN", "mongo">> }

Texts(n) == UNION {[1..k -> Lines] : k \in 0..n}

Dockerfiles(n) ==
    {[status |-> "ok", text |-> t] : t \in Texts(n)}
    \cup {[status |-> s, text |-> <<>>] : s \in {"missing", "undecodable"}}

RootNames == {"app.py", "package.json", "pom.xml", "Main.java", "main.go", "README.md"}

Listings(n) == {S \in SUBSET RootNames : Cardinality(S) <= n}

\* The target repository's workflow files before any invocation: none, files
\* committed by hand, or the files earlier invocations left there.
InitialFiles ==
    { [p \in Paths |-> NoFile],
      [p \in Paths |-> Foreign],
      [p \in Paths |-> IF p = CiPath
                       THEN Template("acme/ci-templates", "default-ci.yml")
                       ELSE generate_ci_yaml(p[2])] }

Requests == {"ok", "not_json", "no_repo", "no_token"}

(* ----------------------------- results -------------------------------- *)

Result(outcome, code, lang, path, file, repo) ==
    [outcome |-> outcome, code |-> code, language |-> lang,
     path |-> path, file |-> file, repo |-> repo]

Pending == Result("pending", 0, "", <<>>, "", "")

(* --------------------------- collaborator ------------------------------ *)

\* The hosting API behind repo.get_contents, repo.update_file and
\* repo.create_file is not part of the repository.  It is taken to behave as
\* the content API does: a read of a path fails exactly when the path holds no
\* file, an update is accepted exactly when the sha passed is the blob sha of
\* the file now at the path, and a create is rejected when the path holds a
\* file.  The root listing and the reads of the reference repository do not
\* fail for other reasons.
Exists(path) == files[path] # NoFile

\* repo.update_file succeeds when the sha names the file's current blob.
UpdateAccepted(path, sha) == Exists(path) /\ sha = Sha(files[path])

\* repo.create_file succeeds when the path holds no file.
CreateAccepted(path) == ~Exists(path)

Commit(w, op, path) == [writer |-> w, op |-> op, path |-> path]

\* A write request as the collaborator receives it.
Call(op, path, sha) == [op |-> op, path |-> path, sha |-> sha]

(* ------------------------------- Init ---------------------------------- *)

InitInvocations ==
    /\ commits = <<>>
    /\ pc = [w \in Invocations |-> "idle"]
    /\ language = [w \in Invocations |-> ""]
    /\ ci_yaml = [w \in Invocations |-> NoFile]
    /\ contents_sha = [w \in Invocations |-> Sha(NoFile)]
    /\ readAt = [w \in Invocations |-> 0]
    /\ reference = [w \in Invocations |-> ""]
    /\ calls = [w \in Invocations |-> <<>>]
    /\ result = [w \in Invocations |-> Pending]

InitRefFiles ==
    refFiles = [r \in RefRepos |->
                   IF r = "acme/ci-templates" THEN WorkflowFiles
                   ELSE {"python-ci.yml", "node-ci.yml"}]

\* Racing invocations against one repository.
Init ==
    /\ dockerfile \in Dockerfiles(1)
    /\ rootEntries \in Listings(1)
    /\ files \in InitialFiles
    /\ InitRefFiles
    /\ InitInvocations

\* One invocation against every repository content within the bounds.
InitDetect ==
    /\ dockerfile \in Dockerfiles(MaxLines)
    /\ rootEntries \in Listings(MaxEntries)
    /\ files \in InitialFiles
    /\ InitRefFiles
    /\ InitInvocations

(* ----------------------- src/main.py: generate_ci ---------------------- *)

Finish(w, r) ==
    /\ pc' = [pc EXCEPT ![w] = "done"]
    /\ result' = [result EXCEPT ![w] = r]

\* generate_ci up to the call of commit_ci_yaml: request checks, Dockerfile
\* fetch, detection and generation.
GenerateCi(w, req) ==
    /\ pc[w] = "idle"
    /\ LET d == get_dockerfile_content(dockerfile)
           lang == detect_language(d.text)
       IN  IF req = "not_json" \/ req = "no_repo"
           THEN /\ Finish(w, Result("error", 400, "", <<>>, "", ""))
                /\ UNCHANGED <<language, ci_yaml>>
           ELSE IF req = "no_token"
           THEN /\ Finish(w, Result("error", 401, "", <<>>, "", ""))
                /\ UNCHANGED <<language, ci_yaml>>
           ELSE IF Falsy(d)
           THEN /\ Finish(w, Result("error", 404, "", <<>>, "Dockerfile", ""))
                /\ UNCHANGED <<language, ci_yaml>>
           ELSE /\ language' = [language EXCEPT ![w] = lang]
                /\ ci_yaml' = [ci_yaml EXCEPT ![w] = generate_ci_yaml(lang)]
                /\ pc' = [pc EXCEPT ![w] = "commit_read"]
                /\ UNCHANGED result
    /\ UNCHANGED <<dockerfile, rootEntries, refFiles, files, commits,
                   contents_sha, readAt, reference, calls>>

\* Variant: the sha of the file read is not kept for the update.
CommitReadNoSha(w) ==
    /\ pc[w] = "commit_read"
    /\ LET path == WorkflowPath(language[w])
       IN  IF Exists(path)
           THEN pc' = [pc EXCEPT ![w] = "commit_update"]
           ELSE pc' = [pc EXCEPT ![w] = "commit_create"]
    /\ readAt' = [readAt EXCEPT ![w] = Len(commits)]
    /\ UNCHANGED <<dockerfile, rootEntries, refFiles, files, commits,
                   language, ci_yaml, contents_sha, reference, calls, result>>

\* commit_ci_yaml, repo.get_contents(path): the file's sha, or an exception
\* that sends control to the except branch.
CommitRead(w) ==
    /\ pc[w] = "commit_read"
    /\ LET path == WorkflowPath(language[w])
       IN  IF Exists(path)
           THEN /\ contents_sha' = [contents_sha EXCEPT ![w] = Sha(files[path])]
                /\ pc' = [pc EXCEPT ![w] = "commit_update"]
           ELSE /\ pc' = [pc EXCEPT ![w] = "commit_create"]
                /\ UNCHANGED contents_sha
    /\ readAt' = [readAt EXCEPT ![w] = Len(commits)]
    /\ UNCHANGED <<dockerfile, rootEntries, refFiles, files, commits,
                   language, ci_yaml, reference, calls, result>>

\* commit_ci_yaml, repo.update_file with the sha read before; a rejection is
\* an exception caught by the same except branch as a failed read.
CommitUpdate(w) ==
    /\ pc[w] = "commit_update"
    /\ LET path == WorkflowPath(language[w])
       IN  /\ calls' = [calls EXCEPT ![w] =
                          Append(@, Call("update", path, contents_sha[w]))]
           /\ IF UpdateAccepted(path, contents_sha[w])
              THEN /\ files' = [files EXCEPT ![path] = ci_yaml[w]]
                   /\ commits' = Append(commits, Commit(w, "update", path))
                   /\ Finish(w, Result("updated", 200, language[w], path, "", ""))
              ELSE /\ pc' = [pc EXCEPT ![w] = "commit_create"]
                   /\ UNCHANGED <<files, commits, result>>
    /\ UNCHANGED <<dockerfile, rootEntries, refFiles,
                   language, ci_yaml, contents_sha, readAt, reference>>

\* Variant: the except branch looks the file up again and updates it with the
\* sha it finds, so its write is accepted whatever the file holds.
CommitCreateOverwrite(w) ==
    /\ pc[w] = "commit_create"
    /\ LET path == WorkflowPath(language[w])
       IN  /\ calls' = [calls EXCEPT ![w] =
                          Append(@, Call(IF Exists(path) THEN "update" ELSE "create",
                                         path, Sha(files[path])))]
           /\ files' = [files EXCEPT ![path] = ci_yaml[w]]
           /\ commits' = Append(commits,
                  Commit(w, IF Exists(path) THEN "update" ELSE "create", path))
           /\ Finish(w, Result("created", 200, language[w], path, "", ""))
    /\ UNCHANGED <<dockerfile, rootEntries, refFiles,
                   language, ci_yaml, contents_sha, readAt, reference>>

\* commit_ci_yaml, repo.create_file in the except branch; its exception
\* leaves commit_ci_yaml and is reported by generate_ci as a 500.
CommitCreate(w) ==
    /\ pc[w] = "commit_create"
    /\ LET path == WorkflowPath(language[w])
       IN  /\ calls' = [calls EXCEPT ![w] =
                          Append(@, Call("create", path, Sha(NoFile)))]
           /\ IF CreateAccepted(path)
              THEN /\ files' = [files EXCEPT ![path] = ci_yaml[w]]
                   /\ commits' = Append(commits, Commit(w, "create", path))
                   /\ Finish(w, Result("created", 200, language[w], path, "", ""))
              ELSE /\ Finish(w, Result("error", 500, "", path, "", ""))
                   /\ UNCHANGED <<files, commits>>
    /\ UNCHANGED <<dockerfile, rootEntries, refFiles,
                   language, ci_yaml, contents_sha, readAt, reference>>

(* ------------- src/app/main.py: copy_workflow_from_reference ----------- *)

\* Variant: the failed fetch of the template is not caught as a not-found
\* result, and the write goes ahead with an empty template.
CopyResolveNoCheck(w, ref) ==
    /\ pc[w] = "idle"
    /\ LET lang == detect_language_from_repo(dockerfile, rootEntries)
           workflow_file == filename_map(lang)
       IN  /\ language' = [language EXCEPT ![w] = lang]
           /\ reference' = [reference EXCEPT ![w] = ref]
           /\ ci_yaml' = [ci_yaml EXCEPT ![w] =
                  IF workflow_file \in refFiles[ref]
                  THEN Template(ref, workflow_file)
                  ELSE [kind |-> "template", name |-> "", steps |-> <<>>]]
           /\ pc' = [pc EXCEPT ![w] = "copy_create"]
           /\ UNCHANGED result
    /\ UNCHANGED <<dockerfile, rootEntries, refFiles, files, commits,
                   contents_sha, readAt, calls>>

\* copy_workflow_from_reference up to the write: detection, file name and the
\* fetch of the template from the reference repository.
CopyResolve(w, ref) ==
    /\ pc[w] = "idle"
    /\ LET lang == detect_language_from_repo(dockerfile, rootEntries)
           workflow_file == filename_map(lang)
       IN  /\ language' = [language EXCEPT ![w] = lang]
           /\ reference' = [reference EXCEPT ![w] = ref]
           /\ IF workflow_file \in refFiles[ref]
              THEN /\ ci_yaml' = [ci_yaml EXCEPT ![w] = Template(ref, workflow_file)]
                   /\ pc' = [pc EXCEPT ![w] = "copy_create"]
                   /\ UNCHANGED result
              ELSE /\ Finish(w, Result("not_found", 0, lang, <<>>, workflow_file, ref))
                   /\ UNCHANGED ci_yaml
    /\ UNCHANGED <<dockerfile, rootEntries, refFiles, files, commits,
                   contents_sha, readAt, calls>>

\* current_repo.create_file(".github/workflows/ci.yml", ...)
CopyCreate(w) ==
    /\ pc[w] = "copy_create"
    /\ calls' = [calls EXCEPT ![w] = Append(@, Call("create", CiPath, Sha(NoFile)))]
    /\ IF CreateAccepted(CiPath)
       THEN /\ files' = [files EXCEPT ![CiPath] = ci_yaml[w]]
            /\ commits' = Append(commits, Commit(w, "create", CiPath))
            /\ Finish(w, Result("copied", 0, language[w], CiPath, "", reference[w]))
       ELSE /\ Finish(w, Result("failed", 0, language[w], CiPath, "", reference[w]))
            /\ UNCHANGED <<files, commits>>
    /\ UNCHANGED <<dockerfile, rootEntries, refFiles,
                   language, ci_yaml, contents_sha, readAt, reference>>

(* --------------------------- specifications ---------------------------- *)

Step(w) ==
    \/ \E req \in Requests : GenerateCi(w, req)
    \/ CommitRead(w)
    \/ CommitUpdate(w)
    \/ CommitCreate(w)
    \/ \E ref \in RefRepos : CopyResolve(w, ref)
    \/ CopyCreate(w)

Next == \E w \in Invocations : Step(w)

Spec == Init /\ [][Next]_vars

NextDetect == Step(1)

SpecDetect == InitDetect /\ [][NextDetect]_vars

TypeOK ==
    /\ dockerfile.status \in {"ok", "missing", "undecodable"}
    /\ Len(dockerfile.text) <= MaxLines
    /\ \A n \in DOMAIN dockerfile.text : dockerfile.text[n] \in Lines
    /\ rootEntries \subseteq RootNames
    /\ \A w \in Invocations :
          /\ pc[w] \in {"idle", "commit_read", "commit_update", "commit_create",
                        "copy_create", "done"}
          /\ Len(calls[w]) <= 2
    /\ Len(commits) <= NumInvocations

(* ------------------------------ helpers -------------------------------- *)

IsCopy(w) == reference[w] # ""

IsGenerate(w) == pc[w] # "idle" /\ reference[w] = "" /\ result[w].code \notin {400, 401}

\* Another invocation has committed to path since w read it.
Overtaken(w, path) ==
    \E i \in (readAt[w] + 1)..Len(commits) :
        commits[i].writer # w /\ commits[i].path = path

\* w leaves its write step in this transition.
Writes(w) == pc[w] \in {"commit_update", "commit_create", "copy_create"} /\ pc'[w] # pc[w]

DestPath(w) == IF pc[w] = "copy_create" THEN CiPath ELSE WorkflowPath(language[w])

\* w's write is accepted in this transition.
Accepted(w) ==
    /\ Len(commits') = Len(commits) + 1
    /\ commits'[Len(commits')].writer = w

\* A line that is a FROM directive.
IsFromLine(l) == StartsWithFrom(LowerLine(Strip(l)))

RECURSIVE FromOnly(_)
FromOnly(text) ==
    IF text = <<>> THEN <<>>
    ELSE IF IsFromLine(Head(text)) THEN <<Head(text)>> \o FromOnly(Tail(text))
    ELSE FromOnly(Tail(text))

InlineKeywords == {"python", "node", "openjdk", "maven", "gradle", "golang", "ruby"}

RepoKeywords == {"python", "node", "java", "openjdk", "go"}

MatchesAny(l, kws) == \E kw \in kws : LineContains(LowerLine(l), kw)

\* Index of the first FROM line that contains one of the keywords, or 0.
FirstMatch(text, kws) ==
    LET S == {n \in DOMAIN text : IsFromLine(text[n]) /\ MatchesAny(text[n], kws)}
    IN  IF S = {} THEN 0 ELSE CHOOSE n \in S : \A m \in S : n <= m

Readable(text) == [status |-> "ok", text |-> text]

(* ------------------------------- claims -------------------------------- *)

\* C1: a commit_ci_yaml call that no other writer interferes with: the read
\* of an absent file leads to the create branch, the read of an existing file
\* to an update that carries the sha just read; the create reports "created",
\* the update reports "updated", and the file then holds the new content.
C1_Step(w) ==
    LET path == WorkflowPath(language[w]) IN
    /\ (pc[w] = "commit_read" /\ pc'[w] # pc[w]) =>
          IF Exists(path)
          THEN pc'[w] = "commit_update" /\ contents_sha'[w] = Sha(files[path])
          ELSE pc'[w] = "commit_create"
    /\ (pc[w] = "commit_update" /\ pc'[w] # pc[w] /\ ~Overtaken(w, path)) =>
          /\ calls'[w] = <<Call("update", path, Sha(files[path]))>>
          /\ result'[w].outcome = "updated"
          /\ files'[path] = ci_yaml[w]
    /\ (pc[w] = "commit_create" /\ pc'[w] # pc[w] /\ ~Overtaken(w, path)
          /\ calls[w] = <<>>) =>
          /\ calls'[w] = <<Call("create", path, Sha(NoFile))>>
          /\ result'[w].outcome = "created"
          /\ files'[path] = ci_yaml[w]

C1_CreateOrUpdate == [][\A w \in Invocations : C1_Step(w)]_vars

C1_Witness ==
    \E w1, w2 \in Invocations :
        /\ result[w1].outcome = "created"
        /\ result[w2].outcome = "updated"
        /\ result[w1].path = result[w2].path
        /\ files[result[w2].path] = ci_yaml[w2]

\* C2 as stated: a writer that read the destination before another writer's
\* accepted write to it has its own write rejected.
C2_OvertakenWriterFails ==
    [][\A w \in Invocations :
          (Writes(w) /\ Overtaken(w, DestPath(w))) => ~Accepted(w)]_vars

\* C2 as amended: a write is accepted only from a writer whose sha is the
\* file's current identity (update) or when the path holds no file (create);
\* a writer whose sha is stale, or whose create finds a file, changes nothing.
C2_Step(w) ==
    LET path == DestPath(w)
        fresh == IF pc[w] = "commit_update"
                 THEN Exists(path) /\ contents_sha[w] = Sha(files[path])
                 ELSE ~Exists(path)
    IN  Writes(w) =>
          IF fresh THEN Accepted(w) /\ files' = [files EXCEPT ![path] = ci_yaml[w]]
          ELSE files' = files /\ commits' = commits

C2_StaleWriterNeverReplaces ==
    [][/\ \A w \in Invocations : C2_Step(w)
       /\ (files' # files \/ commits' # commits) => \E w \in Invocations : Writes(w)]_vars

C2_Witness ==
    \E w \in Invocations :
        /\ pc[w] = "done"
        /\ result[w].code = 500
        /\ Len(calls[w]) = 2
        /\ Overtaken(w, result[w].path)
        /\ calls[w][1].sha # Sha(files[result[w].path])

\* C3: an invocation issues at most one write request, and a create only
\* after the read found no file.
C3_AtMostOneWrite ==
    \A w \in Invocations : Len(calls[w]) <= 1

\* C4: copy_workflow_from_reference against a target whose ci.yml exists
\* succeeds and leaves the resolved template in the file.
C4_CopyIsIdempotent ==
    [][\A w \in Invocations :
          (pc[w] = "copy_create" /\ pc'[w] = "done" /\ Exists(CiPath)) =>
              /\ result'[w].outcome = "copied"
              /\ files'[CiPath] = ci_yaml[w]]_vars

C6_FirstFromLineWins ==
    \A w \in Invocations :
        (dockerfile.status = "ok" /\ language[w] # "") =>
            /\ IsGenerate(w) =>
                  LET k == FirstMatch(dockerfile.text, InlineKeywords)
                  IN  k # 0 =>
                        /\ language[w] = detect_language(<<dockerfile.text[k]>>)
                        /\ LineContains(LowerLine(dockerfile.text[k]), "python")
                              => language[w] = "python"
            /\ IsCopy(w) =>
                  LET k == FirstMatch(dockerfile.text, RepoKeywords)
                  IN  k # 0 =>
                        /\ language[w] = detect_language_from_repo(
                                            Readable(<<dockerfile.text[k]>>), rootEntries)
                        /\ LineContains(LowerLine(dockerfile.text[k]), "python")
                              => language[w] = "python"

C8_EveryTagHasBody ==
    \A w \in Invocations :
        (IsGenerate(w) /\ language[w] # "") =>
            IF language[w] \in InlineTags \ {"unknown"}
            THEN /\ ci_yaml[w].kind = "workflow"
                 /\ ci_yaml[w].steps # <<>>
                 /\ ci_yaml[w].steps[1] = "actions/checkout@v3"
            ELSE ci_yaml[w].kind = "comment" /\ ci_yaml[w].name = language[w]

\* C9: when the reference repository lacks the workflow file of the detected
\* tag, the invocation returns a not-found result naming the file and the
\* reference repository, and issues no write.
C9_MissingTemplateNotFound ==
    \A w \in Invocations :
        (IsCopy(w) /\ filename_map(language[w]) \notin refFiles[reference[w]]) =>
            /\ pc[w] = "done"
            /\ result[w].outcome = "not_found"
            /\ result[w].file = filename_map(language[w])
            /\ result[w].repo = reference[w]
            /\ calls[w] = <<>>
            /\ \A i \in DOMAIN commits : commits[i].writer # w

C9_Witness ==
    \E w \in Invocations :
        /\ language[w] = "java"
        /\ result[w].outcome = "not_found"
        /\ result[w].file = "java-ci.yml"
        /\ result[w].repo = "acme/ci-partial"
        /\ calls[w] = <<>>

\* C10: the tag of a readable Dockerfile is the tag of its FROM lines alone.
C10_OnlyFromLinesCount ==
    \A w \in Invocations :
        (dockerfile.status = "ok" /\ language[w] # "") =>
            /\ IsGenerate(w) =>
                  language[w] = detect_language(FromOnly(dockerfile.text))
            /\ IsCopy(w) =>
                  language[w] = detect_language_from_repo(
                                    Readable(FromOnly(dockerfile.text)), rootEntries)

====
